---- MODULE Spec2Model ----
(***************************************************************************)
(* A model of src/src/main.rs: the crawl service.  POST / fans a batch of  *)
(* URLs out into one tokio task per URL (crawl_handler); each task looks   *)
(* the URL up in the moka cache and, on a miss, builds a spider Website,   *)
(* subscribes to its page events, spawns the crawl as a detached task and  *)
(* consumes the events until one matches the URL (crawl_page_uncached,     *)
(* crawl_single_page).  main serves until shutdown_signal completes.       *)
(***************************************************************************)
EXTENDS Integers, Sequences, FiniteSets, TLC

\* ------------------------------------------------------------------ bounds
\* Requests (batches) the server accepts in one run.
MaxBatches == 2
\* URL occurrences over all accepted batches: one per-URL task each.
MaxTasks == 2
\* The same where the cache is looked at over a longer run (SpecCache).
MaxCacheTasks == 3
\* Page events one engine session sends before its crawl ends.
MaxEvents == 2
\* Capacity of the broadcast channel behind Website::subscribe.
ChanCap == 1
\* settings.cache_ttl_seconds ranges over 0..MaxTtl.
MaxTtl == 1
\* settings.cache_max_entries ranges over 0..MaxEntries.
MaxEntries == 1
\* settings.cache_ttl_seconds where the cache is looked at over a longer run.
LongTtl == 2
\* GET /health requests the server accepts in one run.
MaxProbes == 3

URLS == {"u1", "u2"}
Batches == 1..MaxBatches
Tasks == 1..MaxCacheTasks
Probes == 1..MaxProbes

\* Option<T>: None is the empty tuple, Some(v) the one-element tuple.
None == <<>>
Some(v) == <<v>>
unwrap(o) == o[1]

\* Result<T>: Ok(v) carries the value, Err(e) the error's context.
Ok(v) == [tag |-> "Ok", val |-> v]
Err(e) == [tag |-> "Err", val |-> <<e>>]

VARIABLES
    settings,    \* Settings: cache_ttl_seconds, cache_max_entries, chrome_connection_url
    health,      \* per GET /health request: where its health_check is, what was sent
                 \* to the engine, what came back and what the handler responded
    cache,       \* moka Cache<String, CachedPage>: url -> Option<CachedPage>
    age,         \* per url: time since the latest insert under it (as far as counted)
    lifecycle,   \* "Serving", "Draining", "Stopped" (axum::serve in main);
                 \* "Failed": main returned an error before serving
    shutdownBy,  \* what completed shutdown_signal: "none", "signal", "install_failed"
    inflight,    \* the batches whose handler was running when shutdown_signal completed
    payload,     \* per batch: the urls of its CrawlRequest
    hpc,         \* per batch: position of its crawl_handler future
    results,     \* per batch: the Vec results of crawl_handler
    tbatch,      \* per task: the batch that spawned it (0: not spawned)
    turl,        \* per task: its url
    pc,          \* per task: position of the per-URL future
    how,         \* per task: the path it ended on
    ret,         \* per task: the CachedPage it holds / the value it returned
    joined,      \* tasks whose result join_next has handed to the handler
    sess,        \* per task: the spawned crawl (w.crawl_smart; w.unsubscribe)
    chan,        \* per task: page events the receiver rx has not read yet
    lagged,      \* per task: rx fell behind, its next recv is Err(Lagged)
    nsent,       \* per task: page events its engine session has sent
    nrecv,       \* per task: page events rx.recv() has returned to the loop
    skipped,     \* per task, while its job runs: the page events the loop read
                 \* and passed over
    wrote,       \* per task: it has issued cache.insert
    after,       \* per task: the tasks for its url that had returned a crawled result
                 \* when it was spawned
    lookup,      \* per task: what held when it looked the cache up
    job,         \* per task: what its crawl_page_uncached returned
    lastWrite,   \* per url: the value of the latest cache.insert
    evicted      \* urls whose latest entry the cache dropped for capacity

vars == << settings, health, cache, age, lifecycle, shutdownBy, inflight, payload, hpc, results, tbatch,
           turl, pc, how, ret, joined, sess, chan, lagged, nsent, nrecv, skipped,
           wrote, after, lookup, job, lastWrite, evicted >>

cacheVars == << cache, age, lastWrite, evicted >>
histVars == << wrote, after, lookup, skipped >>
engineVars == << sess, chan, lagged, nsent >>
serverVars == << lifecycle, shutdownBy, inflight, health, payload >>

\* ------------------------------------------------------------- data types
\* spider::page::Page as the loop reads it: get_url(), is_empty(), and the raw
\* content, which is particular to the session and the event that carried it.
Page(u, e, t, k) == [url |-> u, empty |-> e, raw |-> <<t, k>>]

\* content::transform_content(&page, ..) with ReturnFormat::Markdown.
transform_content(page) == <<"md", page.raw>>

\* CachedPage { source, content }
CachedPage(u, c) == [source |-> u, content |-> c]

\* CrawlResponse { page_content, metadata: Metadata { source } }
CrawlResponse(cached) ==
    [page_content |-> cached.content, metadata |-> [source |-> cached.source]]

TasksOf(b) == {t \in Tasks : tbatch[t] = b}
Spawned == {t \in Tasks : tbatch[t] # 0}
Finished == {"done", "panicked"}
Alive == lifecycle \notin {"Stopped", "Failed"}

\* ------------------------------------------------------------------ cache
\* moka: an entry is expired once its insertion time plus time_to_live is
\* not after the clock.
is_expired(u) == age[u] >= settings.cache_ttl_seconds

Live == {u \in URLS : cache[u] # None /\ ~is_expired(u)}

\* A lookup that returns whatever the map holds under the key.
cache_get_raw(u) == cache[u]

\* cache.get(&url).await; a cache of max_capacity 0 holds nothing.
cache_get(u) ==
    IF settings.cache_max_entries = 0 \/ u \notin Live THEN None ELSE cache[u]

\* A cache whose insert stores nothing.
cache_insert_dropped(c, u, v) == c

\* A cache whose insert keeps the value already under the key.
cache_insert_keep(c, u, v) ==
    IF settings.cache_max_entries = 0 \/ c[u] # None THEN c ELSE [c EXCEPT ![u] = Some(v)]

\* cache.insert(url, cached).await: the value replaces any old one under the
\* key; a cache of max_capacity 0 drops it.
cache_insert(c, u, v) ==
    IF settings.cache_max_entries = 0 THEN c ELSE [c EXCEPT ![u] = Some(v)]

\* A housekeeping that removes what has expired and never evicts for capacity.
cache_maintenance_expiry_only ==
    /\ Alive
    /\ \E u \in URLS : cache[u] # None /\ u \notin Live
    /\ cache' = [u \in URLS |-> IF u \in Live THEN cache[u] ELSE None]
    /\ UNCHANGED << settings, age, lastWrite, evicted, serverVars, hpc, results, tbatch,
                    turl, pc, how, ret, joined, engineVars, nrecv, histVars, job >>

\* moka's housekeeping (run_pending_tasks): expired entries are removed, and
\* while more than max_capacity entries remain some of them are evicted.
cache_maintenance ==
    /\ Alive
    /\ \/ \E u \in URLS : cache[u] # None /\ u \notin Live
       \/ Cardinality(Live) > settings.cache_max_entries
    /\ \E keep \in SUBSET Live :
         /\ IF Cardinality(Live) > settings.cache_max_entries
            THEN Cardinality(keep) = settings.cache_max_entries
            ELSE keep = Live
         /\ cache' = [u \in URLS |-> IF u \in keep THEN cache[u] ELSE None]
         /\ evicted' = evicted \cup (Live \ keep)
    /\ UNCHANGED << settings, age, lastWrite, serverVars, hpc, results, tbatch, turl,
                    pc, how, ret, joined, engineVars, nrecv, histVars, job >>

\* Time passes: every key written so far is one unit further from its insert.
\* The time of a key is counted up to `past` units beyond the ttl; from the
\* ttl on the entry is expired whatever the count.
tick(past) ==
    /\ Alive
    /\ \E u \in URLS : lastWrite[u] # None /\ age[u] < settings.cache_ttl_seconds + past
    /\ age' = [u \in URLS |->
                 IF lastWrite[u] # None /\ age[u] < settings.cache_ttl_seconds + past
                 THEN age[u] + 1 ELSE age[u]]
    /\ UNCHANGED << settings, cache, lastWrite, evicted, serverVars, hpc, results,
                    tbatch, turl, pc, how, ret, joined, engineVars, nrecv, histVars, job >>

\* -------------------------------------------------------------- handler
\* crawl_handler up to its first await: one task per url of the payload is
\* spawned into the JoinSet; with no url, join_next() is None at once and the
\* handler responds with the empty array.
crawl_handler_spawn(b, urls) ==
    /\ lifecycle = "Serving"
    /\ hpc[b] = "none"
    /\ \A a \in Batches : a < b => hpc[a] # "none"
    /\ LET n == Cardinality(Spawned)
           new == (n + 1)..(n + Len(urls))
       IN /\ n + Len(urls) <= Cardinality(Tasks)
          /\ tbatch' = [t \in Tasks |-> IF t \in new THEN b ELSE tbatch[t]]
          /\ turl' = [t \in Tasks |-> IF t \in new THEN Some(urls[t - n]) ELSE turl[t]]
          /\ pc' = [t \in Tasks |-> IF t \in new THEN "get" ELSE pc[t]]
          /\ after' = [t \in Tasks |->
                         IF t \in new
                         THEN {s \in Tasks : pc[s] = "done" /\ how[s] = "fresh"
                                              /\ turl[s] = Some(urls[t - n])}
                         ELSE after[t]]
    /\ hpc' = [hpc EXCEPT ![b] = IF urls = <<>> THEN "responded" ELSE "joining"]
    /\ payload' = [payload EXCEPT ![b] = urls]
    /\ UNCHANGED << settings, cacheVars, lifecycle, shutdownBy, inflight, health,
                    results, how, ret, joined,
                    engineVars, nrecv, wrote, lookup, skipped, job >>

\* A per-URL task whose cache hit does not return: it goes on to crawl.
task_start_no_return(t, outcome) ==
    /\ Alive
    /\ pc[t] = "get"
    /\ outcome = "ok"
    /\ LET url == unwrap(turl[t])
           hit == cache_get(url)
       IN lookup' = [lookup EXCEPT ![t] =
                 Some([got |-> hit,
                       inTtl |-> lastWrite[url] # None /\ ~is_expired(url),
                       age |-> age[url],
                       evicted |-> url \in evicted])]
    /\ pc' = [pc EXCEPT ![t] = "recv"]
    /\ sess' = [sess EXCEPT ![t] = "crawling"]
    /\ UNCHANGED << settings, cacheVars, serverVars, hpc, results, tbatch, turl,
                    how, ret, joined, chan, lagged, nsent, nrecv, wrote, after, skipped, job >>

\* A per-URL task whose crawl_page_uncached swallows a build failure: it
\* returns Ok(None), as for a page that was not found.
task_start_build_err_swallowed(t, outcome) ==
    /\ Alive
    /\ pc[t] = "get"
    /\ LET url == unwrap(turl[t])
           hit == cache_get(url)
       IN /\ lookup' = [lookup EXCEPT ![t] =
                 Some([got |-> hit,
                       inTtl |-> lastWrite[url] # None /\ ~is_expired(url),
                       age |-> age[url],
                       evicted |-> url \in evicted])]
          /\ CASE hit # None ->
                 /\ outcome = "ok"
                 /\ pc' = [pc EXCEPT ![t] = "done"]
                 /\ how' = [how EXCEPT ![t] = "hit"]
                 /\ ret' = [ret EXCEPT ![t] = Some(CrawlResponse(unwrap(hit)))]
                 /\ UNCHANGED << sess, job >>
            [] hit = None /\ outcome = "build_err" ->
                 /\ pc' = [pc EXCEPT ![t] = "done"]
                 /\ how' = [how EXCEPT ![t] = "builderr"]
                 /\ job' = [job EXCEPT ![t] = Some(Ok(None))]
                 /\ UNCHANGED << ret, sess >>
            [] hit = None /\ outcome = "panic" ->
                 /\ pc' = [pc EXCEPT ![t] = "panicked"]
                 /\ how' = [how EXCEPT ![t] = "panic"]
                 /\ UNCHANGED << ret, sess, job >>
            [] OTHER ->
                 /\ pc' = [pc EXCEPT ![t] = "recv"]
                 /\ sess' = [sess EXCEPT ![t] = "crawling"]
                 /\ UNCHANGED << ret, how, job >>
    /\ UNCHANGED << settings, cacheVars, serverVars, hpc, results, tbatch, turl,
                    joined, chan, lagged, nsent, nrecv, wrote, after, skipped >>

\* A per-URL task over a cache that expires by idleness: a hit counts the
\* entry's time anew.
task_start_touch(t, outcome) ==
    /\ Alive
    /\ pc[t] = "get"
    /\ LET url == unwrap(turl[t])
           hit == cache_get(url)
       IN /\ lookup' = [lookup EXCEPT ![t] =
                 Some([got |-> hit,
                       inTtl |-> lastWrite[url] # None /\ ~is_expired(url),
                       age |-> age[url],
                       evicted |-> url \in evicted])]
          /\ age' = IF hit # None THEN [age EXCEPT ![url] = 0] ELSE age
          /\ CASE hit # None ->
                 /\ outcome = "ok"
                 /\ pc' = [pc EXCEPT ![t] = "done"]
                 /\ how' = [how EXCEPT ![t] = "hit"]
                 /\ ret' = [ret EXCEPT ![t] = Some(CrawlResponse(unwrap(hit)))]
                 /\ UNCHANGED << sess, job >>
            [] hit = None /\ outcome = "build_err" ->
                 /\ pc' = [pc EXCEPT ![t] = "done"]
                 /\ how' = [how EXCEPT ![t] = "builderr"]
                 /\ job' = [job EXCEPT ![t] = Some(Err("Failed to build website crawler"))]
                 /\ UNCHANGED << ret, sess >>
            [] hit = None /\ outcome = "panic" ->
                 /\ pc' = [pc EXCEPT ![t] = "panicked"]
                 /\ how' = [how EXCEPT ![t] = "panic"]
                 /\ UNCHANGED << ret, sess, job >>
            [] OTHER ->
                 /\ pc' = [pc EXCEPT ![t] = "recv"]
                 /\ sess' = [sess EXCEPT ![t] = "crawling"]
                 /\ UNCHANGED << ret, how, job >>
    /\ UNCHANGED << settings, cache, lastWrite, evicted, serverVars, hpc, results,
                    tbatch, turl, joined, chan, lagged, nsent, nrecv, wrote, after, skipped >>

\* The per-URL task from its start to its first suspension: the cache lookup
\* and, on a miss, crawl_page_uncached up to rx.recv().await: the Website is
\* built (or build() fails), subscribed (or expect panics), and the crawl is
\* spawned as a task of its own.
task_start(t, outcome) ==
    /\ Alive
    /\ pc[t] = "get"
    /\ LET url == unwrap(turl[t])
           hit == cache_get(url)
       IN /\ lookup' = [lookup EXCEPT ![t] =
                 Some([got |-> hit,
                       inTtl |-> lastWrite[url] # None /\ ~is_expired(url),
                       age |-> age[url],
                       evicted |-> url \in evicted])]
          /\ CASE hit # None ->
                 /\ outcome = "ok"
                 /\ pc' = [pc EXCEPT ![t] = "done"]
                 /\ how' = [how EXCEPT ![t] = "hit"]
                 /\ ret' = [ret EXCEPT ![t] = Some(CrawlResponse(unwrap(hit)))]
                 /\ UNCHANGED << sess, job >>
            [] hit = None /\ outcome = "build_err" ->
                 /\ pc' = [pc EXCEPT ![t] = "done"]
                 /\ how' = [how EXCEPT ![t] = "builderr"]
                 /\ job' = [job EXCEPT ![t] = Some(Err("Failed to build website crawler"))]
                 /\ UNCHANGED << ret, sess >>
            [] hit = None /\ outcome = "panic" ->
                 /\ pc' = [pc EXCEPT ![t] = "panicked"]
                 /\ how' = [how EXCEPT ![t] = "panic"]
                 /\ UNCHANGED << ret, sess, job >>
            [] OTHER ->
                 /\ pc' = [pc EXCEPT ![t] = "recv"]
                 /\ sess' = [sess EXCEPT ![t] = "crawling"]
                 /\ UNCHANGED << ret, how, job >>
    /\ UNCHANGED << settings, cacheVars, serverVars, hpc, results, tbatch, turl,
                    joined, chan, lagged, nsent, nrecv, wrote, after, skipped >>

\* ------------------------------------------------------- engine session
\* The spawned crawl, w.crawl_smart(): it sends a page event to the channel.
\* A full channel drops its oldest value and the receiver lags; with the
\* receiver gone the value is dropped.
engine_emit(t, u, e) ==
    /\ Alive
    /\ sess[t] = "crawling"
    /\ u \in {unwrap(turl[t]), "elsewhere"}
    /\ e => u = unwrap(turl[t])
    /\ nsent[t] < MaxEvents
    /\ nsent' = [nsent EXCEPT ![t] = @ + 1]
    /\ LET page == Page(u, e, t, nsent[t] + 1)
       IN IF pc[t] # "recv"
          THEN UNCHANGED << chan, lagged >>
          ELSE IF Len(chan[t]) < ChanCap
          THEN /\ chan' = [chan EXCEPT ![t] = Append(@, page)]
               /\ UNCHANGED lagged
          ELSE /\ chan' = [chan EXCEPT ![t] = Append(Tail(@), page)]
               /\ lagged' = [lagged EXCEPT ![t] = TRUE]
    /\ UNCHANGED << settings, cacheVars, serverVars, hpc, results, tbatch, turl,
                    pc, how, ret, joined, sess, nrecv, histVars, job >>

\* The spawned crawl ends: crawl_smart() returns and w.unsubscribe() drops the
\* sender, which closes the channel.
engine_finish(t) ==
    /\ Alive
    /\ sess[t] = "crawling"
    /\ sess' = [sess EXCEPT ![t] = "ended"]
    /\ UNCHANGED << settings, cacheVars, serverVars, hpc, results, tbatch, turl,
                    pc, how, ret, joined, chan, lagged, nsent, nrecv, histVars, job >>

\* ------------------------------------------------------------ crawl job
\* A loop that unsubscribes the session when it finds the match.
crawl_single_page_recv_unsubscribe(t) ==
    /\ Alive
    /\ pc[t] = "recv"
    /\ IF lagged[t] \/ (chan[t] = <<>> /\ sess[t] = "ended")
       THEN /\ pc' = [pc EXCEPT ![t] = "done"]
            /\ how' = [how EXCEPT ![t] = IF lagged[t] THEN "lagged" ELSE "nomatch"]
            /\ chan' = [chan EXCEPT ![t] = <<>>]
            /\ lagged' = [lagged EXCEPT ![t] = FALSE]
            /\ job' = [job EXCEPT ![t] = Some(Ok(None))]
            /\ skipped' = [skipped EXCEPT ![t] = <<>>]
            /\ UNCHANGED << ret, nrecv, sess >>
       ELSE /\ chan[t] # <<>>
            /\ nrecv' = [nrecv EXCEPT ![t] = @ + 1]
            /\ LET page == Head(chan[t])
               IN IF ~page.empty /\ page.url = unwrap(turl[t])
                  THEN /\ pc' = [pc EXCEPT ![t] = "insert"]
                       /\ ret' = [ret EXCEPT ![t] =
                                    Some(CachedPage(unwrap(turl[t]), transform_content(page)))]
                       /\ chan' = [chan EXCEPT ![t] = <<>>]
                       /\ sess' = [sess EXCEPT ![t] = "ended"]
                       /\ job' = [job EXCEPT ![t] = Some(Ok(ret'[t]))]
                       /\ UNCHANGED skipped
                  ELSE /\ chan' = [chan EXCEPT ![t] = Tail(@)]
                       /\ skipped' = [skipped EXCEPT ![t] = Append(@, page)]
                       /\ UNCHANGED << pc, ret, sess, job >>
            /\ UNCHANGED << how, lagged >>
    /\ UNCHANGED << settings, cacheVars, serverVars, hpc, results, tbatch, turl,
                    joined, nsent, wrote, after, lookup >>

\* A loop that records the match and keeps reading until the stream closes.
crawl_single_page_recv_drain(t) ==
    /\ Alive
    /\ pc[t] = "recv"
    /\ ~lagged[t]
    /\ IF chan[t] = <<>>
       THEN /\ sess[t] = "ended"
            /\ pc' = [pc EXCEPT ![t] = IF ret[t] # None THEN "insert" ELSE "done"]
            /\ how' = [how EXCEPT ![t] = IF ret[t] # None THEN @ ELSE "nomatch"]
            /\ job' = [job EXCEPT ![t] = Some(Ok(ret[t]))]
            /\ UNCHANGED << ret, nrecv, chan, skipped >>
       ELSE /\ nrecv' = [nrecv EXCEPT ![t] = @ + 1]
            /\ chan' = [chan EXCEPT ![t] = Tail(@)]
            /\ LET page == Head(chan[t])
               IN /\ ret' = [ret EXCEPT ![t] =
                            IF ~page.empty /\ page.url = unwrap(turl[t]) /\ @ = None
                            THEN Some(CachedPage(unwrap(turl[t]), transform_content(page)))
                            ELSE @]
                  /\ skipped' = [skipped EXCEPT ![t] =
                            IF ~page.empty /\ page.url = unwrap(turl[t]) /\ ret[t] = None
                            THEN @ ELSE Append(@, page)]
            /\ UNCHANGED << pc, how, job >>
    /\ UNCHANGED << settings, cacheVars, serverVars, hpc, results, tbatch, turl,
                    joined, sess, lagged, nsent, wrote, after, lookup >>

\* A loop without the is_empty check: it returns the first event whose url is
\* the target's, empty or not.
crawl_single_page_recv_no_empty_check(t) ==
    /\ Alive
    /\ pc[t] = "recv"
    /\ IF lagged[t] \/ (chan[t] = <<>> /\ sess[t] = "ended")
       THEN /\ pc' = [pc EXCEPT ![t] = "done"]
            /\ how' = [how EXCEPT ![t] = IF lagged[t] THEN "lagged" ELSE "nomatch"]
            /\ chan' = [chan EXCEPT ![t] = <<>>]
            /\ lagged' = [lagged EXCEPT ![t] = FALSE]
            /\ job' = [job EXCEPT ![t] = Some(Ok(None))]
            /\ skipped' = [skipped EXCEPT ![t] = <<>>]
            /\ UNCHANGED << ret, nrecv >>
       ELSE /\ chan[t] # <<>>
            /\ nrecv' = [nrecv EXCEPT ![t] = @ + 1]
            /\ LET page == Head(chan[t])
               IN IF page.url = unwrap(turl[t])
                  THEN /\ pc' = [pc EXCEPT ![t] = "insert"]
                       /\ ret' = [ret EXCEPT ![t] =
                                    Some(CachedPage(unwrap(turl[t]), transform_content(page)))]
                       /\ chan' = [chan EXCEPT ![t] = <<>>]
                       /\ job' = [job EXCEPT ![t] = Some(Ok(ret'[t]))]
                       /\ UNCHANGED skipped
                  ELSE /\ chan' = [chan EXCEPT ![t] = Tail(@)]
                       /\ skipped' = [skipped EXCEPT ![t] = Append(@, page)]
                       /\ UNCHANGED << pc, ret, job >>
            /\ UNCHANGED << how, lagged >>
    /\ UNCHANGED << settings, cacheVars, serverVars, hpc, results, tbatch, turl,
                    joined, sess, nsent, wrote, after, lookup >>

\* A loop for which the end of the stream is a failure of the job.
crawl_single_page_recv_closed_is_err(t) ==
    /\ Alive
    /\ pc[t] = "recv"
    /\ IF lagged[t] \/ (chan[t] = <<>> /\ sess[t] = "ended")
       THEN /\ pc' = [pc EXCEPT ![t] = "done"]
            /\ how' = [how EXCEPT ![t] = IF lagged[t] THEN "lagged" ELSE "nomatch"]
            /\ chan' = [chan EXCEPT ![t] = <<>>]
            /\ lagged' = [lagged EXCEPT ![t] = FALSE]
            /\ job' = [job EXCEPT ![t] = Some(Err("No matching page"))]
            /\ skipped' = [skipped EXCEPT ![t] = <<>>]
            /\ UNCHANGED << ret, nrecv >>
       ELSE /\ chan[t] # <<>>
            /\ nrecv' = [nrecv EXCEPT ![t] = @ + 1]
            /\ LET page == Head(chan[t])
               IN IF ~page.empty /\ page.url = unwrap(turl[t])
                  THEN /\ pc' = [pc EXCEPT ![t] = "insert"]
                       /\ ret' = [ret EXCEPT ![t] =
                                    Some(CachedPage(unwrap(turl[t]), transform_content(page)))]
                       /\ chan' = [chan EXCEPT ![t] = <<>>]
                       /\ job' = [job EXCEPT ![t] = Some(Ok(ret'[t]))]
                       /\ UNCHANGED skipped
                  ELSE /\ chan' = [chan EXCEPT ![t] = Tail(@)]
                       /\ skipped' = [skipped EXCEPT ![t] = Append(@, page)]
                       /\ UNCHANGED << pc, ret, job >>
            /\ UNCHANGED << how, lagged >>
    /\ UNCHANGED << settings, cacheVars, serverVars, hpc, results, tbatch, turl,
                    joined, sess, nsent, wrote, after, lookup >>

\* A loop whose job caches its failure too: when the stream ends with no match
\* an entry without a page is inserted under the url.
crawl_single_page_recv_negative_cache(t) ==
    /\ Alive
    /\ pc[t] = "recv"
    /\ IF lagged[t] \/ (chan[t] = <<>> /\ sess[t] = "ended")
       THEN /\ pc' = [pc EXCEPT ![t] = "done"]
            /\ how' = [how EXCEPT ![t] = IF lagged[t] THEN "lagged" ELSE "nomatch"]
            /\ chan' = [chan EXCEPT ![t] = <<>>]
            /\ lagged' = [lagged EXCEPT ![t] = FALSE]
            /\ job' = [job EXCEPT ![t] = Some(Ok(None))]
            /\ skipped' = [skipped EXCEPT ![t] = <<>>]
            /\ cache' = cache_insert(cache, unwrap(turl[t]),
                                     CachedPage(unwrap(turl[t]), <<"md", <<t, 0>> >>))
            /\ lastWrite' = [lastWrite EXCEPT ![unwrap(turl[t])] =
                               Some(CachedPage(unwrap(turl[t]), <<"md", <<t, 0>> >>))]
            /\ UNCHANGED << ret, nrecv >>
       ELSE /\ chan[t] # <<>>
            /\ nrecv' = [nrecv EXCEPT ![t] = @ + 1]
            /\ LET page == Head(chan[t])
               IN IF ~page.empty /\ page.url = unwrap(turl[t])
                  THEN /\ pc' = [pc EXCEPT ![t] = "insert"]
                       /\ ret' = [ret EXCEPT ![t] =
                                    Some(CachedPage(unwrap(turl[t]), transform_content(page)))]
                       /\ chan' = [chan EXCEPT ![t] = <<>>]
                       /\ job' = [job EXCEPT ![t] = Some(Ok(ret'[t]))]
                       /\ UNCHANGED skipped
                  ELSE /\ chan' = [chan EXCEPT ![t] = Tail(@)]
                       /\ skipped' = [skipped EXCEPT ![t] = Append(@, page)]
                       /\ UNCHANGED << pc, ret, job >>
            /\ UNCHANGED << how, lagged, cache, lastWrite >>
    /\ UNCHANGED << settings, age, evicted, serverVars, hpc, results, tbatch, turl,
                    joined, sess, nsent, wrote, after, lookup >>

\* One turn of `while let Ok(page) = rx.recv().await` in crawl_single_page,
\* and, when the loop is left, the rest of crawl_page_uncached: the matched
\* page is transformed into a CachedPage, no page is Ok(None).
crawl_single_page_recv(t) ==
    /\ Alive
    /\ pc[t] = "recv"
    /\ IF lagged[t] \/ (chan[t] = <<>> /\ sess[t] = "ended")
       THEN \* Err(Lagged) or Err(Closed): the loop ends, None
            /\ pc' = [pc EXCEPT ![t] = "done"]
            /\ how' = [how EXCEPT ![t] = IF lagged[t] THEN "lagged" ELSE "nomatch"]
            /\ chan' = [chan EXCEPT ![t] = <<>>]
            /\ lagged' = [lagged EXCEPT ![t] = FALSE]
            /\ job' = [job EXCEPT ![t] = Some(Ok(None))]
            /\ skipped' = [skipped EXCEPT ![t] = <<>>]
            /\ UNCHANGED << ret, nrecv >>
       ELSE /\ chan[t] # <<>>
            /\ nrecv' = [nrecv EXCEPT ![t] = @ + 1]
            /\ LET page == Head(chan[t])
               IN IF ~page.empty /\ page.url = unwrap(turl[t])
                  THEN /\ pc' = [pc EXCEPT ![t] = "insert"]
                       /\ ret' = [ret EXCEPT ![t] =
                                    Some(CachedPage(unwrap(turl[t]), transform_content(page)))]
                       /\ chan' = [chan EXCEPT ![t] = <<>>]
                       /\ job' = [job EXCEPT ![t] = Some(Ok(ret'[t]))]
                       /\ UNCHANGED skipped
                  ELSE /\ chan' = [chan EXCEPT ![t] = Tail(@)]
                       /\ skipped' = [skipped EXCEPT ![t] = Append(@, page)]
                       /\ UNCHANGED << pc, ret, job >>
            /\ UNCHANGED << how, lagged >>
    /\ UNCHANGED << settings, cacheVars, serverVars, hpc, results, tbatch, turl,
                    joined, sess, nsent, wrote, after, lookup >>

\* A task that returns the crawled result without inserting it.
task_cache_insert_skipped(t) ==
    /\ Alive
    /\ pc[t] = "insert"
    /\ ret' = [ret EXCEPT ![t] = Some(CrawlResponse(unwrap(ret[t])))]
    /\ pc' = [pc EXCEPT ![t] = "done"]
    /\ how' = [how EXCEPT ![t] = "fresh"]
    /\ UNCHANGED << settings, cacheVars, serverVars, hpc, results, tbatch, turl,
                    joined, engineVars, nrecv, histVars, job >>

\* The Ok(Some(cached)) arm of the per-URL task: cache.insert(..).await, then
\* the task returns the CrawlResponse.
task_cache_insert(t) ==
    /\ Alive
    /\ pc[t] = "insert"
    /\ LET url == unwrap(turl[t])
           cached == unwrap(ret[t])
       IN /\ cache' = cache_insert(cache, url, cached)
          /\ lastWrite' = [lastWrite EXCEPT ![url] = Some(cached)]
          /\ ret' = [ret EXCEPT ![t] = Some(CrawlResponse(cached))]
    /\ wrote' = [wrote EXCEPT ![t] = TRUE]
    /\ age' = [age EXCEPT ![unwrap(turl[t])] = 0]
    /\ pc' = [pc EXCEPT ![t] = "done"]
    /\ how' = [how EXCEPT ![t] = "fresh"]
    /\ evicted' = evicted \ {unwrap(turl[t])}
    /\ skipped' = [skipped EXCEPT ![t] = <<>>]
    /\ UNCHANGED << settings, serverVars, hpc, results, tbatch, turl,
                    joined, engineVars, nrecv, after, lookup, job >>

\* A handler that gives up on the first task without a result: it drops what
\* it has collected and responds.
crawl_handler_join_next_failfast(b, t) ==
    /\ Alive
    /\ hpc[b] = "joining"
    /\ t \in TasksOf(b) \ joined
    /\ pc[t] \in Finished
    /\ joined' = joined \cup {t}
    /\ IF pc[t] = "done" /\ ret[t] # None
       THEN /\ results' = [results EXCEPT ![b] = Append(@, unwrap(ret[t]))]
            /\ hpc' = [hpc EXCEPT ![b] =
                         IF TasksOf(b) \subseteq joined' THEN "responded" ELSE @]
       ELSE /\ results' = [results EXCEPT ![b] = <<>>]
            /\ hpc' = [hpc EXCEPT ![b] = "responded"]
    /\ UNCHANGED << settings, cacheVars, serverVars, tbatch, turl, pc, how, ret,
                    engineVars, nrecv, histVars, job >>

\* A handler that responds as soon as one of its tasks has been joined.
crawl_handler_join_next_first(b, t) ==
    /\ Alive
    /\ hpc[b] = "joining"
    /\ t \in TasksOf(b) \ joined
    /\ pc[t] \in Finished
    /\ joined' = joined \cup {t}
    /\ results' = [results EXCEPT ![b] =
                     IF pc[t] = "done" /\ ret[t] # None THEN Append(@, unwrap(ret[t])) ELSE @]
    /\ hpc' = [hpc EXCEPT ![b] = "responded"]
    /\ UNCHANGED << settings, cacheVars, serverVars, tbatch, turl, pc, how, ret,
                    engineVars, nrecv, histVars, job >>

\* One turn of `while let Some(res) = set.join_next().await`: a finished task
\* is taken from the JoinSet and its value pushed if it is Ok(Some(..)); when
\* the set is empty the handler responds with Json(results).
crawl_handler_join_next(b, t) ==
    /\ Alive
    /\ hpc[b] = "joining"
    /\ t \in TasksOf(b) \ joined
    /\ pc[t] \in Finished
    /\ joined' = joined \cup {t}
    /\ results' = [results EXCEPT ![b] =
                     IF pc[t] = "done" /\ ret[t] # None THEN Append(@, unwrap(ret[t])) ELSE @]
    /\ hpc' = [hpc EXCEPT ![b] = IF TasksOf(b) \subseteq joined' THEN "responded" ELSE @]
    /\ UNCHANGED << settings, cacheVars, serverVars, tbatch, turl, pc, how, ret,
                    engineVars, nrecv, histVars, job >>

\* A disconnect that drops the handler and leaves its tasks running.
client_disconnect_detached(b) ==
    /\ Alive
    /\ hpc[b] = "joining"
    /\ hpc' = [hpc EXCEPT ![b] = "cancelled"]
    /\ UNCHANGED << settings, cacheVars, serverVars, results, tbatch, turl, pc, how,
                    ret, joined, engineVars, nrecv, histVars, job >>

\* The client goes away while the handler waits in join_next: the handler
\* future is dropped and its JoinSet with it, which aborts every task still
\* in the set. The crawls spawned with tokio::task::spawn are in no JoinSet.
client_disconnect(b) ==
    /\ Alive
    /\ hpc[b] = "joining"
    /\ hpc' = [hpc EXCEPT ![b] = "cancelled"]
    /\ LET hit == {t \in TasksOf(b) : pc[t] \notin Finished}
       IN /\ pc' = [t \in Tasks |-> IF t \in hit THEN "aborted" ELSE pc[t]]
          /\ how' = [t \in Tasks |-> IF t \in hit THEN "aborted" ELSE how[t]]
          /\ ret' = [t \in Tasks |-> IF t \in hit THEN None ELSE ret[t]]
          /\ chan' = [t \in Tasks |-> IF t \in hit THEN <<>> ELSE chan[t]]
          /\ lagged' = [t \in Tasks |-> IF t \in hit THEN FALSE ELSE lagged[t]]
          /\ job' = [t \in Tasks |-> IF t \in hit THEN None ELSE job[t]]
          /\ skipped' = [t \in Tasks |-> IF t \in hit THEN <<>> ELSE skipped[t]]
    /\ UNCHANGED << settings, cacheVars, serverVars, results, tbatch, turl, joined,
                    sess, nsent, nrecv, wrote, after, lookup >>

\* ------------------------------------------------------------ lifecycle
\* shutdown_signal(): select! over the ctrl_c and the terminate future. Each
\* completes when its signal arrives, and also when installing its handler
\* fails, after the warning. axum then stops accepting.
shutdown_signal(outcome) ==
    /\ lifecycle = "Serving"
    /\ lifecycle' = "Draining"
    /\ shutdownBy' = IF outcome \in {"ctrl_c", "terminate"} THEN "signal" ELSE "install_failed"
    /\ inflight' = {b \in Batches : hpc[b] = "joining"}
    /\ UNCHANGED << settings, health, cacheVars, payload, hpc, results, tbatch, turl, pc, how, ret,
                    joined, engineVars, nrecv, histVars, job >>

\* A server that exits as soon as the signal is in, without draining.
serve_exit_at_once ==
    /\ lifecycle = "Draining"
    /\ lifecycle' = "Stopped"
    /\ UNCHANGED << settings, health, cacheVars, shutdownBy, inflight, payload, hpc, results, tbatch,
                    turl, pc, how, ret, joined, engineVars, nrecv, histVars, job >>

\* axum::serve(..).with_graceful_shutdown(..) returns once every accepted
\* connection has finished; main returns Ok(()) and the runtime is dropped.
serve_exit ==
    /\ lifecycle = "Draining"
    /\ \A b \in Batches : hpc[b] # "joining"
    /\ lifecycle' = "Stopped"
    /\ UNCHANGED << settings, health, cacheVars, shutdownBy, inflight, payload, hpc, results, tbatch,
                    turl, pc, how, ret, joined, engineVars, nrecv, histVars, job >>

\* --------------------------------------------------------------- health
\* What comes of state.http_client.get(url).send().await: the engine answers
\* with a status, the connection fails, or nothing comes within the client's
\* timeout (Duration::from_secs(3), set in main).
Replies ==
    {[kind |-> "status", code |-> c] : c \in {200, 204, 404, 500}}
      \cup {[kind |-> "connect_error", code |-> 0], [kind |-> "timeout", code |-> 0]}

\* resp.status().is_success(): the 2xx codes.
is_success(code) == 200 <= code /\ code <= 299

\* health_check up to its await: with no chrome_connection_url it returns 503
\* at once, else it sends the GET.
health_check_call(p) ==
    /\ lifecycle = "Serving"
    /\ health[p].pc = "idle"
    /\ \A q \in Probes : q < p => health[q].pc # "idle"
    /\ health' = [health EXCEPT ![p] =
         IF settings.chrome_connection_url = None
         THEN [@ EXCEPT !.pc = "done",
                        !.resp = Some(<<503, "Chromium connection URL not configured">>)]
         ELSE [@ EXCEPT !.pc = "send",
                        !.sent = <<unwrap(settings.chrome_connection_url)>>]]
    /\ UNCHANGED << settings, cacheVars, lifecycle, shutdownBy, inflight, payload, hpc, results,
                    tbatch, turl, pc, how, ret, joined, engineVars, nrecv, histVars, job >>

\* A health_check that takes any answer of the engine for a healthy one.
health_check_resolve_any_answer(p, reply) ==
    /\ Alive
    /\ health[p].pc = "send"
    /\ health' = [health EXCEPT ![p] =
         [@ EXCEPT !.pc = "done",
                   !.reply = Some(reply),
                   !.resp = Some(IF reply.kind = "status"
                                 THEN <<200, "OK">>
                                 ELSE <<503, "Chromium instance unreachable">>)]]
    /\ UNCHANGED << settings, cacheVars, lifecycle, shutdownBy, inflight, payload, hpc, results,
                    tbatch, turl, pc, how, ret, joined, engineVars, nrecv, histVars, job >>

\* health_check from the await on: the match on what send() returned.
health_check_resolve(p, reply) ==
    /\ Alive
    /\ health[p].pc = "send"
    /\ health' = [health EXCEPT ![p] =
         [@ EXCEPT !.pc = "done",
                   !.reply = Some(reply),
                   !.resp = Some(IF reply.kind = "status" /\ is_success(reply.code)
                                 THEN <<200, "OK">>
                                 ELSE <<503, "Chromium instance unreachable">>)]]
    /\ UNCHANGED << settings, cacheVars, lifecycle, shutdownBy, inflight, payload, hpc, results,
                    tbatch, turl, pc, how, ret, joined, engineVars, nrecv, histVars, job >>

\* ---------------------------------------------------------- specification
Payloads == UNION {[1..n -> URLS] : n \in 0..MaxTasks}
\* The urls a page event may carry: a requested one, or one the site redirected to.
PageUrls == URLS \cup {"elsewhere"}
Outcomes == {"ok", "build_err", "panic"}
Signals == {"ctrl_c", "terminate", "ctrl_c_install_err", "terminate_install_err"}

\* set_default("chrome_connection_url", ..) in main.
DefaultChromeUrl == Some("http://127.0.0.1:9222/json/version")

\* main up to axum::serve. The settings come from the environment; a value
\* that is not a u64 fails try_deserialize and main returns the error. A ttl
\* or a capacity of 0 is warned about, and the cache is built all the same.
main_startup(raw) ==
    IF raw.cache_ttl_seconds < 0 \/ raw.cache_max_entries < 0 THEN "Failed" ELSE "Serving"

\* APP_CACHE_TTL_SECONDS and APP_CACHE_MAX_ENTRIES as the environment gives them.
RawSettings ==
    [cache_ttl_seconds : -1..MaxTtl, cache_max_entries : -1..MaxEntries,
     chrome_connection_url : {DefaultChromeUrl}]

\* The process once main has run up to axum::serve with the settings raw.
InitState(raw) ==
    /\ settings = raw
    /\ health = [p \in Probes |-> [pc |-> "idle", sent |-> <<>>, reply |-> None, resp |-> None]]
    /\ cache = [u \in URLS |-> None]
    /\ age = [u \in URLS |-> 0]
    /\ lifecycle = main_startup(raw)
    /\ shutdownBy = "none"
    /\ inflight = {}
    /\ payload = [b \in Batches |-> <<>>]
    /\ hpc = [b \in Batches |-> "none"]
    /\ results = [b \in Batches |-> <<>>]
    /\ tbatch = [t \in Tasks |-> 0]
    /\ turl = [t \in Tasks |-> None]
    /\ pc = [t \in Tasks |-> "idle"]
    /\ how = [t \in Tasks |-> "none"]
    /\ ret = [t \in Tasks |-> None]
    /\ joined = {}
    /\ sess = [t \in Tasks |-> "none"]
    /\ chan = [t \in Tasks |-> <<>>]
    /\ lagged = [t \in Tasks |-> FALSE]
    /\ nsent = [t \in Tasks |-> 0]
    /\ nrecv = [t \in Tasks |-> 0]
    /\ skipped = [t \in Tasks |-> <<>>]
    /\ wrote = [t \in Tasks |-> FALSE]
    /\ after = [t \in Tasks |-> {}]
    /\ lookup = [t \in Tasks |-> None]
    /\ job = [t \in Tasks |-> None]
    /\ lastWrite = [u \in URLS |-> None]
    /\ evicted = {}

Init == \E raw \in RawSettings : InitState(raw)

\* The server while it serves: requests, their tasks, the engine sessions,
\* the cache and the clock.
Next ==
    \/ \E b \in Batches, urls \in Payloads :
         Cardinality(Spawned) + Len(urls) <= MaxTasks /\ crawl_handler_spawn(b, urls)
    \/ \E t \in Tasks, o \in Outcomes : task_start(t, o)
    \/ \E t \in Tasks, u \in PageUrls, e \in BOOLEAN : engine_emit(t, u, e)
    \/ \E t \in Tasks : engine_finish(t)
    \/ \E t \in Tasks : crawl_single_page_recv(t)
    \/ \E t \in Tasks : task_cache_insert(t)
    \/ \E b \in Batches, t \in Tasks : crawl_handler_join_next(b, t)
    \/ \E b \in Batches : client_disconnect(b)
    \/ cache_maintenance
    \/ tick(0)

Spec == Init /\ [][Next]_vars

\* The same server with its shutdown: main's axum::serve with
\* with_graceful_shutdown(shutdown_signal()), under the largest settings.
InitServe ==
    InitState([cache_ttl_seconds |-> MaxTtl, cache_max_entries |-> MaxEntries,
               chrome_connection_url |-> DefaultChromeUrl])

NextServe ==
    \/ Next
    \/ \E o \in Signals : shutdown_signal(o)
    \/ serve_exit

SpecServe == InitServe /\ [][NextServe]_vars

\* The server over a longer run of requests for one url that crawl well:
\* every Website builds and every engine session sends the requested page and
\* nothing else (with_limit(1): the crawl is of one page).
InitCache ==
    InitState([cache_ttl_seconds |-> LongTtl, cache_max_entries |-> MaxEntries,
               chrome_connection_url |-> DefaultChromeUrl])

NextCache ==
    \/ \E b \in Batches, urls \in Payloads :
         (\A i \in 1..Len(urls) : urls[i] = "u1") /\ crawl_handler_spawn(b, urls)
    \/ \E t \in Tasks : task_start(t, "ok")
    \/ \E t \in Tasks, u \in URLS : nsent[t] = 0 /\ engine_emit(t, u, FALSE)
    \/ \E t \in Tasks : engine_finish(t)
    \/ \E t \in Tasks : crawl_single_page_recv(t)
    \/ \E t \in Tasks : task_cache_insert(t)
    \/ \E b \in Batches, t \in Tasks : crawl_handler_join_next(b, t)
    \/ cache_maintenance
    \/ tick(1)

SpecCache == InitCache /\ [][NextCache]_vars

\* GET /health alone, over both values the Option chrome_connection_url has
\* in AppState (main's default makes it Some in a server started by main).
InitHealth ==
    \E url \in {None, DefaultChromeUrl} :
      InitState([cache_ttl_seconds |-> MaxTtl, cache_max_entries |-> MaxEntries,
                 chrome_connection_url |-> url])

NextHealth ==
    \/ \E p \in Probes : health_check_call(p)
    \/ \E p \in Probes, r \in Replies : health_check_resolve(p, r)

SpecHealth == InitHealth /\ [][NextHealth]_vars

\* The server with clients that wait for their responses, under the
\* scheduling the runtime gives: a task that can take its next step takes it
\* (tokio polls every spawned task that is ready, and the handler when a task
\* of its JoinSet has finished), and every engine session ends its crawl.
InitFair ==
    InitState([cache_ttl_seconds |-> MaxTtl, cache_max_entries |-> MaxEntries,
               chrome_connection_url |-> DefaultChromeUrl])

NextFair ==
    \/ \E b \in Batches, urls \in Payloads :
         Cardinality(Spawned) + Len(urls) <= MaxTasks /\ crawl_handler_spawn(b, urls)
    \/ \E t \in Tasks, o \in Outcomes : task_start(t, o)
    \/ \E t \in Tasks, u \in PageUrls, e \in BOOLEAN : engine_emit(t, u, e)
    \/ \E t \in Tasks : engine_finish(t)
    \/ \E t \in Tasks : crawl_single_page_recv(t)
    \/ \E t \in Tasks : task_cache_insert(t)
    \/ \E b \in Batches, t \in Tasks : crawl_handler_join_next(b, t)
    \/ cache_maintenance
    \/ tick(0)

Fairness ==
    /\ \A t \in Tasks : WF_vars(\E o \in Outcomes : task_start(t, o))
    /\ \A t \in Tasks : WF_vars(engine_finish(t))
    /\ \A t \in Tasks : WF_vars(crawl_single_page_recv(t))
    /\ \A t \in Tasks : WF_vars(task_cache_insert(t))
    /\ \A b \in Batches : WF_vars(\E t \in Tasks : crawl_handler_join_next(b, t))

SpecFair == InitFair /\ [][NextFair]_vars /\ Fairness

\* ------------------------------------------------------------ properties
\* The tasks of batch b that returned a result to the JoinSet.
Produced(b) == {t \in TasksOf(b) : pc[t] = "done" /\ ret[t] # None}

\* How often value r occurs in sequence q.
Count(q, r) == Cardinality({i \in 1..Len(q) : q[i] = r})

\* The event number of the page a CachedPage or CrawlResponse value was made of.
EventOf(content) == content[2][2]

\* Task t has left the event loop with its matching page.
Matched(t) == pc[t] = "insert" \/ how[t] = "fresh"

\* The engine sessions started for url u.
Sessions(u) == {t \in Tasks : turl[t] = Some(u) /\ sess[t] # "none"}

\* C1: what a handler has collected, and what it responds with, is exactly the
\* results of its tasks that produced one (as many entries as producing tasks,
\* each value as often as tasks returned it); a task without a result (no
\* match, build error, panic) adds nothing and takes nothing away.
C1_PartialFailureIsolation ==
    \A b \in Batches :
      hpc[b] \in {"joining", "responded"} =>
        LET got == Produced(b) \cap joined
        IN /\ Len(results[b]) = Cardinality(got)
           /\ \A i \in 1..Len(results[b]) : \E t \in got : ret[t] = Some(results[b][i])
           /\ \A t \in got :
                Count(results[b], unwrap(ret[t]))
                  = Cardinality({s \in got : ret[s] = ret[t]})
           /\ hpc[b] = "responded" => TasksOf(b) \subseteq joined

\* A batch of two urls has responded: one task crawled its page, its sibling
\* panicked, and the response holds the one entry.
C1_Witness ==
    \E b \in Batches : \E t1, t2 \in TasksOf(b) :
      /\ hpc[b] = "responded"
      /\ how[t1] = "fresh" /\ how[t2] = "panic"
      /\ results[b] = << unwrap(ret[t1]) >>

C3_EarlyTermination ==
    \A t \in Tasks :
      /\ pc[t] = "insert" => nrecv[t] <= EventOf(unwrap(ret[t]).content)
      /\ how[t] = "fresh" => nrecv[t] <= EventOf(unwrap(ret[t]).page_content)

\* The first event matched and was returned; the engine sent a second one,
\* which the job never received.
C3_Witness ==
    \E t \in Tasks :
      /\ how[t] = "fresh" /\ EventOf(unwrap(ret[t]).page_content) = 1
      /\ nrecv[t] = 1 /\ nsent[t] = 2

\* C4: a task whose cache lookup returned an entry returns that entry's
\* content and source, and no engine session exists for it, nor a cache write.
C4_CacheHitShortCircuit ==
    \A t \in Tasks :
      (lookup[t] # None /\ unwrap(lookup[t]).got # None) =>
        /\ pc[t] = "done"
        /\ ret[t] = Some([page_content |-> unwrap(unwrap(lookup[t]).got).content,
                          metadata |-> [source |-> unwrap(unwrap(lookup[t]).got).source]])
        /\ sess[t] = "none" /\ nsent[t] = 0 /\ ~wrote[t]

\* A task got a cache hit.
C4_Witness ==
    \E t \in Tasks : lookup[t] # None /\ unwrap(lookup[t]).got # None /\ how[t] = "hit"

\* One url was requested by exactly the two tasks t1 and t2; t1 crawled it and
\* had returned its result when t2 was issued, and t2 looked the cache up
\* within the ttl of t1's insert.
IssuedTwice(t1, t2) ==
    /\ t1 # t2 /\ turl[t1] # None
    /\ {t \in Tasks : turl[t] = turl[t1]} = {t1, t2}
    /\ lookup[t2] # None
    /\ t1 \in after[t2]
    /\ unwrap(lookup[t2]).inTtl

\* The second request is a cache hit: one engine session in all, same content.
SecondIsHit(t1, t2) ==
    /\ unwrap(lookup[t2]).got # None
    /\ Cardinality(Sessions(unwrap(turl[t1]))) = 1
    /\ pc[t2] = "done" =>
         /\ ret[t2] # None
         /\ unwrap(ret[t2]).page_content = unwrap(ret[t1]).page_content

\* C5 as the spec states it: the same url issued twice within the ttl window,
\* the second after the first returned, invokes the engine once in all and
\* the second response's content is the first's.
C5_IdempotentCacheHit ==
    \A t1, t2 \in Tasks : IssuedTwice(t1, t2) => SecondIsHit(t1, t2)

\* C5, amended: the same, provided the cache is not disabled by
\* cache_max_entries = 0 and the entry was not evicted for capacity before
\* the second lookup.
C5_IdempotentCacheHitWhenKept ==
    \A t1, t2 \in Tasks :
      ( /\ IssuedTwice(t1, t2)
        /\ settings.cache_max_entries > 0
        /\ ~unwrap(lookup[t2]).evicted ) => SecondIsHit(t1, t2)

\* The second request of a url has returned the first one's content from the cache.
C5_Witness ==
    \E t1, t2 \in Tasks :
      /\ IssuedTwice(t1, t2) /\ how[t1] = "fresh" /\ how[t2] = "hit"
      /\ unwrap(ret[t2]).page_content = unwrap(ret[t1]).page_content
      /\ Cardinality(Sessions(unwrap(turl[t1]))) = 1

\* C6: the step in which a task that crawled returns its result has issued
\* the cache insert for that result (an enabled cache holds it under the url
\* in that very state), and so every crawled result the handler was handed is
\* one whose insert has been issued.
C6_WriteBeforeReturn ==
    /\ [][\A t \in Tasks :
            (pc[t] # "done" /\ pc'[t] = "done" /\ ret'[t] # None /\ sess[t] # "none") =>
              LET r == unwrap(ret'[t])
                  c == CachedPage(r.metadata.source, r.page_content)
              IN /\ wrote'[t]
                 /\ lastWrite'[unwrap(turl[t])] = Some(c)
                 /\ settings.cache_max_entries > 0 => cache'[unwrap(turl[t])] = Some(c)]_vars
    /\ [](\A t \in joined : (sess[t] # "none" /\ ret[t] # None) => wrote[t])

\* The handler holds a freshly crawled result, and the cache holds it too.
C6_Witness ==
    \E t \in joined :
      /\ how[t] = "fresh" /\ wrote[t]
      /\ cache[unwrap(turl[t])]
           = Some(CachedPage(unwrap(ret[t]).metadata.source, unwrap(ret[t]).page_content))

\* C7: whatever the interleaving of the writers, an entry the cache holds
\* under a url is the value of the latest insert under it.
C7_LastWriteWins ==
    \A u \in URLS : cache[u] # None => cache[u] = lastWrite[u]

\* Two tasks for one url, each issued before the other had returned, both
\* missed the cache, both ran a session of their own and both inserted; the cache holds the
\* second writer's value, which is not the first writer's.
C7_Witness ==
    \E t1, t2 \in Tasks :
      /\ t1 # t2 /\ turl[t1] = turl[t2] /\ turl[t1] # None
      /\ how[t1] = "fresh" /\ how[t2] = "fresh"
      /\ after[t1] = {} /\ after[t2] = {}
      /\ unwrap(lookup[t1]).got = None /\ unwrap(lookup[t2]).got = None
      /\ sess[t1] # "none" /\ sess[t2] # "none"
      /\ cache[unwrap(turl[t1])]
           = Some(CachedPage(unwrap(ret[t2]).metadata.source, unwrap(ret[t2]).page_content))
      /\ unwrap(ret[t1]).page_content # unwrap(ret[t2]).page_content

\* C8: once shutdown_signal has completed no request is accepted, the signal
\* itself aborts no handler and no task, and when the process has exited
\* every request that was in flight at the signal has responded with the
\* results of all its tasks (or its client has gone away).
C8_GracefulDrain ==
    /\ [][lifecycle # "Serving" =>
            \A b \in Batches : hpc[b] = "none" => hpc'[b] = "none"]_vars
    /\ [][(lifecycle = "Serving" /\ lifecycle' = "Draining") =>
            (hpc' = hpc /\ pc' = pc /\ results' = results)]_vars
    /\ [](lifecycle = "Stopped" =>
            \A b \in inflight :
              /\ hpc[b] \in {"responded", "cancelled"}
              /\ hpc[b] = "responded" =>
                   /\ TasksOf(b) \subseteq joined
                   /\ Len(results[b]) = Cardinality(Produced(b)))

\* The process has exited; a request whose task was still crawling when the
\* signal came has responded with that task's result.
C8_Witness ==
    /\ lifecycle = "Stopped" /\ shutdownBy = "signal"
    /\ \E b \in inflight : \E t \in TasksOf(b) :
         /\ hpc[b] = "responded"
         /\ how[t] = "fresh"
         /\ results[b] = << unwrap(ret[t]) >>

\* C9: a server that has left Serving has received a signal: a handler that
\* could not be installed is not what made it drain.
C9_InstallFailureKeepsServing ==
    lifecycle \in {"Draining", "Stopped"} => shutdownBy = "signal"

JobTag(t) == IF job[t] = None THEN "none" ELSE unwrap(job[t]).tag

\* C11: a task whose Website could not be built got Err from
\* crawl_page_uncached, where a job that found no page got Ok(None); it has no
\* engine session, wrote nothing and returned no result; the failing step
\* leaves the cache and every session as they are; and the handler, handed
\* that task, keeps what it has collected and goes on joining or responds.
C11_BuildErrorHandling ==
    /\ [](\A t \in Tasks :
            /\ how[t] = "builderr" =>
                 /\ JobTag(t) = "Err"
                 /\ sess[t] = "none" /\ nsent[t] = 0
                 /\ ~wrote[t] /\ ret[t] = None
            /\ how[t] = "nomatch" => job[t] = Some(Ok(None)))
    /\ [][\A t \in Tasks :
            (how[t] # "builderr" /\ how'[t] = "builderr") =>
              (cache' = cache /\ lastWrite' = lastWrite /\ sess' = sess)]_vars
    /\ [][\A t \in Tasks :
            (how[t] = "builderr" /\ t \notin joined /\ t \in joined') =>
              /\ results' = results
              /\ hpc'[tbatch[t]] \in {"joining", "responded"}]_vars

\* A batch of two urls has responded: the Website of one could not be built,
\* the other was crawled, and the response holds the crawled page alone.
C11_Witness ==
    \E b \in Batches : \E t1, t2 \in TasksOf(b) :
      /\ hpc[b] = "responded"
      /\ how[t1] = "builderr" /\ JobTag(t1) = "Err"
      /\ how[t2] = "fresh"
      /\ results[b] = << unwrap(ret[t2]) >>

\* The cache is configured with a ttl of 0 or with a capacity of 0 (and the
\* other setting is a u64 too).
Degenerate ==
    /\ settings.cache_ttl_seconds >= 0 /\ settings.cache_max_entries >= 0
    /\ settings.cache_ttl_seconds = 0 \/ settings.cache_max_entries = 0

\* C12: with a ttl of 0 or a capacity of 0 main gets to serve, a lookup of
\* any key returns absent in every state (so also right after an insert of
\* that key or of another), and so every task that has looked its url up
\* missed and went on into crawl_page_uncached.
C12_DegenerateCache ==
    Degenerate =>
      /\ lifecycle # "Failed"
      /\ \A u \in URLS : cache_get(u) = None
      /\ \A t \in Tasks :
           lookup[t] # None => (unwrap(lookup[t]).got = None /\ how[t] # "hit")

\* The ttl is 0 and the capacity is not: a task crawled a url and inserted it,
\* the map holds the entry, and a task issued for the same url after the first
\* had returned missed the cache and started an engine session of its own.
C12_Witness ==
    /\ settings.cache_ttl_seconds = 0 /\ settings.cache_max_entries > 0
    /\ \E t1, t2 \in Tasks :
         /\ how[t1] = "fresh" /\ wrote[t1] /\ t1 \in after[t2]
         /\ cache[unwrap(turl[t1])] # None
         /\ lookup[t2] # None /\ unwrap(lookup[t2]).got = None
         /\ sess[t2] # "none"

\* C13: a lookup made more than the ttl after the latest insert under its
\* key returned absent, and what counts is the insert: the time of a key
\* starts anew only in a step that inserts under it, never in one that reads
\* it, and otherwise only goes up.
C13_CacheTtl ==
    /\ [](\A t \in Tasks :
            (lookup[t] # None /\ unwrap(lookup[t]).age > settings.cache_ttl_seconds) =>
              unwrap(lookup[t]).got = None)
    /\ [](\A u \in URLS : age[u] > settings.cache_ttl_seconds => cache_get(u) = None)
    /\ [][\A u \in URLS :
            /\ age'[u] >= age[u] \/ age'[u] = 0
            /\ age'[u] < age[u] =>
                 \E t \in Tasks : /\ turl[t] = Some(u)
                                  /\ pc[t] = "insert" /\ pc'[t] = "done" /\ wrote'[t]]_vars

\* One url, three tasks: the first crawled and inserted it, the second read
\* the entry from the cache some time later, and the third looked it up more
\* than the ttl after the insert, the only one so far, and missed.
C13_Witness ==
    \E t1, t2, t3 \in Tasks :
      /\ turl[t1] # None /\ turl[t2] = turl[t1] /\ turl[t3] = turl[t1]
      /\ how[t1] = "fresh" /\ wrote[t1] /\ ~wrote[t2] /\ ~wrote[t3]
      /\ how[t2] = "hit" /\ unwrap(lookup[t2]).age > 0
      /\ unwrap(ret[t2]).page_content = unwrap(ret[t1]).page_content
      /\ lookup[t3] # None
      /\ unwrap(lookup[t3]).age > settings.cache_ttl_seconds
      /\ unwrap(lookup[t3]).got = None

\* The keys the map holds, and those among them a lookup returns.
Held == {u \in URLS : cache[u] # None}
Readable == {u \in URLS : cache_get(u) # None}

HealthOk == Some(<<200, "OK">>)
HealthUnreachable == Some(<<503, "Chromium instance unreachable">>)
HealthNotConfigured == Some(<<503, "Chromium connection URL not configured">>)

\* C15: a health_check that has returned responded with one of the three,
\* 200 "OK" exactly when an endpoint is configured and the engine answered
\* with a 2xx status, 503 "unreachable" for every other answer, a failed
\* connection and a timeout, and 503 "not configured" exactly when no
\* endpoint is configured, and then no request was sent; one that has not
\* returned has responded with nothing.
C15_HealthCheckMapping ==
    \A p \in Probes :
      LET h == health[p]
          url == settings.chrome_connection_url
      IN /\ h.pc \in {"idle", "send", "done"}
         /\ h.pc # "done" => h.resp = None
         /\ h.pc = "done" =>
              /\ h.resp \in {HealthOk, HealthUnreachable, HealthNotConfigured}
              /\ h.resp = HealthOk <=>
                   /\ url # None /\ h.reply # None
                   /\ unwrap(h.reply).kind = "status"
                   /\ unwrap(h.reply).code \in 200..299
              /\ h.resp = HealthNotConfigured <=> url = None
              /\ url = None => (h.sent = <<>> /\ h.reply = None)
              /\ url # None => (h.sent = url /\ h.reply # None)

\* Three checks against a configured endpoint: one answered 204 and got
\* 200 "OK", one answered 500 and one timed out, and both got 503.
C15_Witness ==
    \E p1, p2, p3 \in Probes :
      /\ health[p1].reply = Some([kind |-> "status", code |-> 204])
      /\ health[p1].resp = HealthOk
      /\ health[p2].reply = Some([kind |-> "status", code |-> 500])
      /\ health[p2].resp = HealthUnreachable
      /\ health[p3].reply = Some([kind |-> "timeout", code |-> 0])
      /\ health[p3].resp = HealthUnreachable

\* C16: every event the loop reads is the next one the engine sent (the k-th
\* read is the k-th sent); an event that is empty or whose url is not the
\* target's is passed over, whatever its url, and a non-empty one with the
\* target's url ends the loop and is the page the job returns. So the events a
\* job passed over are the first ones sent, none of them a non-empty page of
\* the target, and the page returned is the event right after them.
C16_FirstMatchWins ==
    /\ [][\A t \in Tasks : nrecv'[t] # nrecv[t] =>
            LET page == Head(chan[t])
                url == unwrap(turl[t])
            IN /\ nrecv'[t] = nrecv[t] + 1
               /\ page.raw = <<t, nrecv'[t]>>
               /\ IF ~page.empty /\ page.url = url
                  THEN /\ pc'[t] = "insert"
                       /\ ret'[t] = Some(CachedPage(url, transform_content(page)))
                       /\ skipped'[t] = skipped[t]
                  ELSE /\ pc'[t] = "recv" /\ ret'[t] = ret[t]
                       /\ skipped'[t] = Append(skipped[t], page)]_vars
    /\ [](\A t \in Tasks :
            /\ \A i \in 1..Len(skipped[t]) :
                 /\ skipped[t][i].raw = <<t, i>>
                 /\ skipped[t][i].empty \/ skipped[t][i].url # unwrap(turl[t])
            /\ pc[t] = "recv" => nrecv[t] = Len(skipped[t])
            /\ pc[t] = "insert" =>
                 /\ nrecv[t] = Len(skipped[t]) + 1
                 /\ unwrap(ret[t]).content = <<"md", <<t, nrecv[t]>> >>)

\* The engine sent an empty page with the target's url and then the page
\* itself: the job passed over the first and has returned the second.
C16_Witness ==
    \E t \in Tasks :
      /\ pc[t] = "insert"
      /\ skipped[t] = << Page(unwrap(turl[t]), TRUE, t, 1) >>
      /\ unwrap(ret[t]).content = transform_content(Page(unwrap(turl[t]), FALSE, t, 2))

\* The stream of task t has ended and the loop has read and passed over all
\* that was sent: its next recv is Err(Closed).
StreamOver(t) ==
    pc[t] = "recv" /\ ~lagged[t] /\ chan[t] = <<>> /\ sess[t] = "ended"

\* C17: a job whose stream is over without a match returns Ok(None) at its
\* next step, with no result and no cache write; such a job read every event
\* its session sent; and the handler, handed its task, adds nothing to the
\* results and goes on joining or responds.
C17_NoMatchOutcome ==
    /\ [][\A t \in Tasks :
            (StreamOver(t) /\ pc'[t] \notin {"recv", "aborted"}) =>
              /\ pc'[t] = "done" /\ how'[t] = "nomatch"
              /\ job'[t] = Some(Ok(None)) /\ ret'[t] = None
              /\ cache' = cache /\ lastWrite' = lastWrite]_vars
    /\ [](\A t \in Tasks :
            how[t] = "nomatch" =>
              /\ pc[t] = "done" /\ JobTag(t) = "Ok" /\ unwrap(job[t]).val = None
              /\ ret[t] = None /\ ~wrote[t]
              /\ sess[t] = "ended" /\ nrecv[t] = nsent[t])
    /\ [][\A t \in Tasks :
            (how[t] = "nomatch" /\ t \notin joined /\ t \in joined') =>
              /\ results' = results
              /\ hpc'[tbatch[t]] \in {"joining", "responded"}]_vars

\* The engine sent two pages, neither the target's, and ended its crawl; the
\* job read both and returned Ok(None), and the batch responded with nothing.
C17_Witness ==
    \E b \in Batches : \E t \in TasksOf(b) :
      /\ hpc[b] = "responded" /\ TasksOf(b) = {t}
      /\ how[t] = "nomatch" /\ job[t] = Some(Ok(None))
      /\ nsent[t] = 2 /\ nrecv[t] = 2
      /\ results[b] = <<>>

\* C18: a step that writes the cache (a new latest insert under some key, or
\* a new value in the map) is the insert of one task whose crawl_page_uncached
\* returned Ok(Some(page)): it writes that page, under the task's url and
\* under no other key, and the page's source is that url. So every entry is
\* stored under its own source. A step in which a task ends on a cache hit,
\* with no match, on a lagging receiver, on a build error or in a panic
\* writes nothing.
C18_OnlySuccessesCached ==
    /\ [][\A u \in URLS :
            (lastWrite'[u] # lastWrite[u] \/ (cache'[u] # cache[u] /\ cache'[u] # None)) =>
              \E t \in Tasks :
                /\ turl[t] = Some(u)
                /\ pc[t] = "insert" /\ pc'[t] = "done" /\ how'[t] = "fresh"
                /\ JobTag(t) = "Ok" /\ unwrap(job[t]).val # None
                /\ lastWrite'[u] = unwrap(job[t]).val
                /\ unwrap(lastWrite'[u]).source = u
                /\ cache'[u] \in {cache[u], lastWrite'[u]}
                /\ \A v \in URLS \ {u} : lastWrite'[v] = lastWrite[v]]_vars
    /\ [](\A u \in URLS : cache[u] # None => unwrap(cache[u]).source = u)
    /\ [][\A t \in Tasks :
            (how'[t] # how[t] /\ how'[t] \in {"hit", "nomatch", "lagged", "builderr", "panic"}) =>
              (cache' = cache /\ lastWrite' = lastWrite)]_vars

\* One task crawled its url and the cache holds the page under that url, with
\* that url as its source; another task found no page for another url, and
\* nothing was ever inserted under that one.
C18_Witness ==
    \E t1, t2 \in Tasks :
      /\ how[t1] = "fresh" /\ how[t2] = "nomatch"
      /\ turl[t1] # turl[t2]
      /\ cache[unwrap(turl[t1])]
           = Some(CachedPage(unwrap(turl[t1]), unwrap(ret[t1]).page_content))
      /\ cache[unwrap(turl[t2])] = None /\ lastWrite[unwrap(turl[t2])] = None

\* How often url u occurs in the request of batch b.
Occurrences(b, u) == Cardinality({i \in 1..Len(payload[b]) : payload[b][i] = u})

\* C19: an accepted batch has one task for every occurrence of a url in its
\* request; a handler that has responded has joined all of them, each
\* finished (returned or panicked); every task that was started finishes,
\* one whose target never appears too, and every accepted batch responds.
C19_BatchCompletion ==
    /\ [](\A b \in Batches : hpc[b] # "none" =>
            /\ Cardinality(TasksOf(b)) = Len(payload[b])
            /\ \A u \in URLS :
                 Cardinality({t \in TasksOf(b) : turl[t] = Some(u)}) = Occurrences(b, u))
    /\ [](\A b \in Batches : hpc[b] = "responded" =>
            \A t \in TasksOf(b) : pc[t] \in Finished /\ t \in joined)
    /\ \A t \in Tasks : (pc[t] \in {"get", "recv", "insert"}) ~> (pc[t] \in Finished)
    /\ \A b \in Batches : (hpc[b] = "joining") ~> (hpc[b] = "responded")

\* A request that names one url twice has responded: it had two tasks, both
\* are joined, and the session of one sent pages, none of them the target's,
\* until its crawl ended.
C19_Witness ==
    \E b \in Batches :
      /\ hpc[b] = "responded"
      /\ Len(payload[b]) = 2 /\ payload[b][1] = payload[b][2]
      /\ Cardinality(TasksOf(b)) = 2 /\ TasksOf(b) \subseteq joined
      /\ \E t \in TasksOf(b) : how[t] = "nomatch" /\ nsent[t] = MaxEvents

====
